---- MODULE Spec2Model ----
(***************************************************************************)
(* Model of the neuroevolution core of rust-ai-wars:                       *)
(*   src/src/vain.rs          VaiNet (new, clone, predict, mutate)         *)
(*   src/src/cell/vai_cell.rs spawn_vai_cells, vai_cell_replication_system,*)
(*                            update_vai_cells_system, VaiCellBundle::new  *)
(*                                                                         *)
(* Four specifications share the variables:                                *)
(*   Spec       the population: the Bevy systems of VaiCellPlugin acting   *)
(*              on the world through deferred Commands;                    *)
(*   SpecLive   Spec with the fairness the schedule provides;              *)
(*   SpecNet    one VaiNet value and a clone of it, acted on by the        *)
(*              methods of VaiNet;                                         *)
(*   SpecUpdate the update pass, interleaved with the reproduction pass    *)
(*              and the bootstrap check, while the clock runs.             *)
(***************************************************************************)
EXTENDS Integers, Sequences, FiniteSets, TLC

(***************************************************************************)
(* Bounds of the model.                                                    *)
(***************************************************************************)

\* vai_cell.rs:9 sets NUM_VAI_CELLS to 1000; the model runs the same code with
\* a small cap.
NUM_VAI_CELLS == 3

\* CellId holds a u32 (vai_cell.rs:223), which wraps at 2^32; the model runs
\* the same code with a counter that wraps at CellIdModulus.
CellIdModulus == 4

\* The model follows a run until this many agents have been spawned.
MaxBorn == 6

\* Energy readings are -1..MaxEnergy, stats.max_score is 0..MaxEnergy.
MaxEnergy == 2

\* rng.gen_range(0.0..1.0) is drawn from {k / DrawDenom : k \in 0..DrawDenom-1}.
DrawDenom == 2

\* Sensory inputs (f64) are drawn from -MaxInput..MaxInput, in half units.
MaxInput == 3

\* Instants and durations are whole ticks; one second is TicksPerSecond ticks.
TicksPerSecond == 2

\* The update pass is followed until the clock reads MaxTime ticks.
MaxTime == 4

\* The update pass starts on populations of 1..MaxAgents agents (reproduction
\* adds to them).
MaxAgents == 1

(***************************************************************************)
(* Program constants.                                                      *)
(***************************************************************************)

\* The const generics I, O and HIDDEN of VaiBrain (vai_cell.rs:10 and 33).
\* Their values are set outside these two files; the model instantiates the
\* smallest network that has an input beside the bias, one hidden node and
\* the four outputs update_vai_cells_system reads (vai_cell.rs:134).
NUM_INPUT_NODES_W_BIAS == 2
NUM_HIDDEN_NODES == 1
NUM_OUTPUT_NODES == 4

\* VaiNet::new: create_variant(5.)   (vain.rs:20)
NEW_INTENSITY == 5

\* VaiNet::mutate: create_variant(1.0)   (vain.rs:42)
MUTATE_INTENSITY == 1

\* Option<T>: None, or Some(v).
None == <<>>
Some(v) == <<v>>

VARIABLES
    cells,      \* the live entities carrying (Cell, VaiBrain, NumCellsSpawned)
    cell_id,    \* the CellId resource
    commands,   \* spawn commands queued by the systems, not yet applied
    despawns,   \* entities whose despawn is queued, not yet applied
    ran,        \* the systems that already ran in the current schedule run
    pass,       \* position of vai_cell_replication_system inside its loop
    born,       \* every id handed to VaiCellBundle::new, in order
    last,       \* what the last step did (observation only)
    offspring,  \* per entity, the spawn commands it caused (observation only)
    net,        \* SpecNet: a VaiNet
    copy,       \* SpecNet: a clone of net, or None
    lab,        \* SpecNet: what the last VaiNet method call did
    now,               \* SpecUpdate: the monotonic clock Instant reads, in ticks
    one_second_timer,  \* SpecUpdate: the instant OneSecondTimer was last reset
    focused_cell_net,  \* SpecUpdate: the FocusedCellNet resource
    bullets,           \* SpecUpdate: projectile spawns queued by the update pass
    upass,             \* SpecUpdate: position of update_vai_cells_system in its loop
    eval_log,          \* SpecUpdate: per entity, the instants of its evaluations
    upd                \* SpecUpdate: what the last step did (observation only)

popvars == <<cells, cell_id, commands, despawns, ran, pass, born, last, offspring>>
netvars == <<net, copy, lab>>
updvars == <<now, one_second_timer, focused_cell_net, bullets, upass, eval_log, upd>>
vars == <<cells, cell_id, commands, despawns, ran, pass, born, last, offspring,
          net, copy, lab,
          now, one_second_timer, focused_cell_net, bullets, upass, eval_log, upd>>

(***************************************************************************)
(* vain.rs: the network.  Numbers are kept in half units: the integer n    *)
(* stands for n/2.  An f64 holds every such value, an f32 only the even    *)
(* ones (the whole numbers), so that narrowing loses precision.            *)
(***************************************************************************)

\* `x as f32`: the nearest f32 at or below.
AsF32(x) == 2 * (x \div 2)

\* `x as f64`: every f32 is an f64.
AsF64(x) == x

\* The literal 1.0 pushed onto the inputs.
BiasInput == 2

\* VAI::<I, O, HIDDEN, 0>::new(): no extra hidden layer, every weight zero.
VAI_new ==
    [ input_layer  |-> [r \in 1..NUM_HIDDEN_NODES |->
                            [c \in 1..NUM_INPUT_NODES_W_BIAS |-> 0]],
      output_layer |-> [r \in 1..NUM_OUTPUT_NODES |->
                            [c \in 1..NUM_HIDDEN_NODES |-> 0]] ]

\* The noise create_variant adds to one weight: independent per weight,
\* scaled by the intensity, never zero.
Noise(intensity) == {0 - intensity, intensity}

\* VAI::create_variant(&self, intensity) -> Self: the variants it may return.
\* self is left as it is.
create_variant(layers, intensity) ==
    { [ input_layer  |-> [r \in 1..NUM_HIDDEN_NODES |->
                            [c \in 1..NUM_INPUT_NODES_W_BIAS |->
                                layers.input_layer[r][c] + d1[r][c]]],
        output_layer |-> [r \in 1..NUM_OUTPUT_NODES |->
                            [c \in 1..NUM_HIDDEN_NODES |->
                                layers.output_layer[r][c] + d2[r][c]]] ] :
        d1 \in [1..NUM_HIDDEN_NODES ->
                    [1..NUM_INPUT_NODES_W_BIAS -> Noise(intensity)]],
        d2 \in [1..NUM_OUTPUT_NODES ->
                    [1..NUM_HIDDEN_NODES -> Noise(intensity)]] }

\* VaiNet::new(): the networks it may return.
VaiNet_new == { [layers |-> v] : v \in create_variant(VAI_new, NEW_INTENSITY) }

\* The declared shape <<I, O, HIDDEN>> of a VaiNet value.
Shape(n) ==
    << Cardinality(DOMAIN n.layers.input_layer[1]),
       Cardinality(DOMAIN n.layers.output_layer),
       Cardinality(DOMAIN n.layers.input_layer) >>

RECURSIVE Dot(_, _, _)
Dot(w, x, k) == IF k = 0 THEN 0 ELSE w[k] * x[k] + Dot(w, x, k - 1)

Activation(v) == IF v < 0 THEN 0 ELSE v

\* VAI::process_slice_transparent: the output of every layer, in order.
process_slice_transparent(layers, input) ==
    LET hidden == [r \in 1..NUM_HIDDEN_NODES |->
                     Activation(Dot(layers.input_layer[r], input,
                                    NUM_INPUT_NODES_W_BIAS))]
        output == [r \in 1..NUM_OUTPUT_NODES |->
                     Dot(layers.output_layer[r], hidden, NUM_HIDDEN_NODES)]
    IN  <<hidden, output>>

\* A clone whose layers are rebuilt rather than copied.
VaiNet_clone_fresh(self) == [layers |-> VAI_new]

\* #[derive(Clone)]: the clone holds a copy of every field.
VaiNet_clone(self) == [layers |-> self.layers]

\* A forward pass that returns one more vector after the output layer.
predict_extra(self, inputs) ==
    LET input_f32 == [i \in 1..Len(inputs) |-> AsF32(inputs[i])]
        pushed    == Append(input_f32, BiasInput)
        result    == process_slice_transparent(self.layers, pushed)
    IN  [l \in 1..Len(result) |->
            [i \in DOMAIN result[l] |-> AsF64(result[l][i])]]
        \o << [i \in DOMAIN result[Len(result)] |->
                  AsF64(result[Len(result)][i]) + 1] >>

\* CellNN::predict(&self, inputs).
predict(self, inputs) ==
    LET input_f32 == [i \in 1..Len(inputs) |-> AsF32(inputs[i])]
        pushed    == Append(input_f32, BiasInput)
        result    == process_slice_transparent(self.layers, pushed)
    IN  [l \in 1..Len(result) |->
            [i \in DOMAIN result[l] |-> AsF64(result[l][i])]]

\* CellNN::mutate(&mut self): the values self may hold afterwards.  The
\* variant create_variant returns is dropped at the end of the statement.
mutate(self) ==
    LET variant == create_variant(self.layers, MUTATE_INTENSITY)
    IN  { self }

\* The input vectors predict is tried on: NUM_INPUT_NODES values.
InputVectors == [1..(NUM_INPUT_NODES_W_BIAS - 1) -> (0 - MaxInput)..MaxInput]


\* The fresh networks the population model draws from: the two variants of
\* VaiNet::new() whose weights all received the same noise.
SampleFreshNets ==
    { n \in VaiNet_new :
        \E d \in Noise(NEW_INTENSITY) :
            /\ \A r \in DOMAIN n.layers.input_layer :
                 \A c \in DOMAIN n.layers.input_layer[r] :
                    n.layers.input_layer[r][c] = d
            /\ \A r \in DOMAIN n.layers.output_layer :
                 \A c \in DOMAIN n.layers.output_layer[r] :
                    n.layers.output_layer[r][c] = d }

(***************************************************************************)
(* vai_cell.rs: the population.                                            *)
(***************************************************************************)

\* What energy_map.0.get(&c.0) may return: None, or Some((v, _)).
Energies == (0 - 1)..MaxEnergy
EnergyReadings == {Some(v) : v \in Energies} \cup {None}

\* stats.max_score.
MaxScores == 0..MaxEnergy

\* rng.gen_range(0.0..1.0): the draw k stands for k / DrawDenom.
Draws == 0..(DrawDenom - 1)

\* rng.gen_range(0.0..=1.0): the offset k stands for k / TicksPerSecond
\* seconds, both ends included.
Offsets == 0..TicksPerSecond

\* The phase offset the bootstrap and reproduction passes of the model
\* draw: the upper end of the range.
SampleOffsets == { o \in Offsets : \A p \in Offsets : p <= o }

\* A bundle whose offspring counter starts at one.
VaiCellBundle_new_counted(id, brain, offset, instant) ==
    [ id |-> id, brain |-> brain, num_cells_spawned |-> 1,
      periodic_update_interval |-> offset,
      last_updated |-> instant, last_bullet_fired |-> instant,
      fitness_score |-> <<>>,
      external_force |-> [force |-> 0, torque |-> 0] ]

\* A bundle whose phase offset lies beyond one second.
VaiCellBundle_new_wide(id, brain, offset, instant) ==
    [ id |-> id, brain |-> brain, num_cells_spawned |-> 0,
      periodic_update_interval |-> offset + TicksPerSecond + 1,
      last_updated |-> instant, last_bullet_fired |-> instant,
      fitness_score |-> <<>>,
      external_force |-> [force |-> 0, torque |-> 0] ]

\* VaiCellBundle::new(x, y, cell_id, net, ..): the components the systems of
\* this file read or write.  `offset` is the draw of vai_cell.rs:242,
\* `instant` the clock at construction, which the two timestamps default to.
VaiCellBundle_new(id, brain, offset, instant) ==
    [ id |-> id, brain |-> brain, num_cells_spawned |-> 0,
      periodic_update_interval |-> offset,
      last_updated |-> instant, last_bullet_fired |-> instant,
      fitness_score |-> <<>>,
      external_force |-> [force |-> 0, torque |-> 0] ]

\* A counter that is written back unchanged.
NextCellId_stuck(c) == c

\* cell_id.0 += 1 on the unsigned counter: a release build wraps (a debug
\* build panics, and the run ends there).
NextCellId(c) == (c + 1) % CellIdModulus

\* cell_id.0 after k executions of cell_id.0 += 1.
RECURSIVE IdAfter(_, _)
IdAfter(c, k) == IF k = 0 THEN c ELSE NextCellId(IdAfter(c, k - 1))

\* A bootstrap that returns early on every population, the empty one included.
BootstrapReturnsEarly_always(num_cells) == num_cells >= 0

\* A bootstrap that tops the population up whenever it is below the cap.
BootstrapReturnsEarly_refill(num_cells) == num_cells >= NUM_VAI_CELLS

\* spawn_vai_cells: `if num_cells > 0 { return; }`
BootstrapReturnsEarly(num_cells) == num_cells > 0

\* An off-by-one cap test.
AtCap_strict(num_cells) == num_cells > NUM_VAI_CELLS

\* vai_cell_replication_system: `if num_cells >= NUM_VAI_CELLS { continue; }`
AtCap(num_cells) == num_cells >= NUM_VAI_CELLS

\* A running count that is never advanced.
NumCellsAfterSpawn_forgotten(num_cells) == num_cells

\* vai_cell_replication_system: `num_cells += 1;`
NumCellsAfterSpawn(num_cells) == num_cells + 1

\* The operands swapped: stats.max_score / v.
Quotient_swapped(v, max_score) ==
    IF v # 0 THEN [kind |-> "finite", num |-> max_score, den |-> v]
    ELSE IF max_score > 0 THEN [kind |-> "+inf", num |-> 0, den |-> 1]
    ELSE IF max_score < 0 THEN [kind |-> "-inf", num |-> 0, den |-> 1]
    ELSE [kind |-> "NaN", num |-> 0, den |-> 1]

\* `v / stats.max_score` in IEEE arithmetic: a finite quotient num/den, an
\* infinity (x / 0) or NaN (0 / 0).
Quotient(v, max_score) ==
    IF max_score # 0 THEN [kind |-> "finite", num |-> v, den |-> max_score]
    ELSE IF v > 0 THEN [kind |-> "+inf", num |-> 0, den |-> 1]
    ELSE IF v < 0 THEN [kind |-> "-inf", num |-> 0, den |-> 1]
    ELSE [kind |-> "NaN", num |-> 0, den |-> 1]

\* The test written as !(draw < q): true on NaN.
DrawAtLeast_not_less(k, q) ==
    CASE q.kind = "NaN"  -> TRUE
      [] q.kind = "+inf" -> FALSE
      [] q.kind = "-inf" -> TRUE
      [] q.den > 0       -> k * q.den >= q.num * DrawDenom
      [] OTHER           -> k * q.den <= q.num * DrawDenom

\* `rng.gen_range(0.0..1.0) >= q` for the draw k / DrawDenom: every
\* comparison with NaN is false.
DrawAtLeast(k, q) ==
    CASE q.kind = "NaN"  -> FALSE
      [] q.kind = "+inf" -> FALSE
      [] q.kind = "-inf" -> TRUE
      [] q.den > 0       -> k * q.den >= q.num * DrawDenom
      [] OTHER           -> k * q.den <= q.num * DrawDenom

\* A parent whose own network receives the variant.
ParentBrainAfter_varied(brain) ==
    [layers |-> CHOOSE v \in create_variant(brain.layers, MUTATE_INTENSITY) : TRUE]

\* The parent's VaiBrain after the spawn arm: the query hands it out as
\* `&VaiBrain`, `brain.0.clone()` reads it and child_net.mutate() is called on
\* the clone, so it is written nowhere.
ParentBrainAfter(brain) == brain

\* A lookup that falls back to the maximum when the agent is not tracked.
Reproduces_default(num_cells, reading, k, max_score) ==
    /\ ~AtCap(num_cells)
    /\ \/ reading = None
       \/ ~DrawAtLeast(k, Quotient(reading[1], max_score))

\* One iteration of the loop of vai_cell_replication_system reaches the
\* spawn: neither `continue` is taken and the reading is Some.
Reproduces(num_cells, reading, k, max_score) ==
    /\ ~AtCap(num_cells)
    /\ reading # None
    /\ ~DrawAtLeast(k, Quotient(reading[1], max_score))

\* An iterator that yields the agent it has just yielded again.
Remaining_again(todo, e) == todo

\* `for .. in cell_query.iter_mut()`: the iterator yields every entity the
\* query matched when the loop started exactly once.
Remaining(todo, e) == todo \ {e}

IdlePass ==
    [ active |-> FALSE, num_cells |-> 0, todo |-> {}, max_score |-> 0,
      start_len |-> 0, start_id |-> 0, start_cmds |-> 0, start_cells |-> {} ]

NoObservation ==
    [ op |-> "init", seen |-> 0, id_before |-> 0, spawned |-> 0,
      reading |-> None, draw |-> None, counter_before |-> 0, counter_after |-> 0 ]

Range(s) == { s[i] : i \in DOMAIN s }

\* NumCellsSpawned of the entity e in the world w.
CounterOf(w, e) == (CHOOSE c \in w : c.entity = e).num_cells_spawned

NoNet == [layers |-> VAI_new]
NoLab == [op |-> "init", before |-> NoNet, after |-> NoNet, x |-> <<>>,
          out_net |-> <<>>, out_copy |-> <<>>, mutated |-> FALSE]

IdleUpdate == [active |-> FALSE, todo |-> {}, focus |-> 0]

NoUpdate ==
    [ op |-> "init", entity |-> 0, within_interval |-> FALSE, within_phase |-> FALSE,
      before |-> <<>>, focus_before |-> <<>>, bullets_before |-> 0,
      input |-> <<>>, output |-> <<>>, signal |-> <<>> ]

\* The clock and the resources of the update pass before anything ran.
UpdateIdle ==
    /\ now = 0
    /\ one_second_timer = 0
    /\ focused_cell_net = <<>>
    /\ bullets = 0
    /\ upass = IdleUpdate
    /\ eval_log = <<>>
    /\ upd = NoUpdate

\* The world after App construction: no cell, CellId(0), nothing queued.
Init ==
    /\ cells = {}
    /\ cell_id = 0
    /\ commands = <<>>
    /\ despawns = {}
    /\ ran = {}
    /\ pass = IdlePass
    /\ born = <<>>
    /\ last = NoObservation
    /\ offspring = <<>>
    /\ net = NoNet
    /\ copy = None
    /\ lab = NoLab
    /\ UpdateIdle

\* spawn_vai_cells, when its on_timer(5 s) condition lets it run.
spawn_vai_cells ==
    /\ ~pass.active
    /\ ~upass.active
    /\ "spawn_vai_cells" \notin ran
    /\ LET num_cells == Cardinality(cells) IN
       IF BootstrapReturnsEarly(num_cells)
       THEN /\ UNCHANGED <<cell_id, commands, born, offspring>>
            /\ last' = [NoObservation EXCEPT !.op = "spawn_vai_cells",
                            !.seen = num_cells, !.id_before = cell_id,
                            !.spawned = Len(commands') - Len(commands)]
       ELSE /\ Len(born) + NUM_VAI_CELLS <= MaxBorn
            /\ \E nets \in [1..NUM_VAI_CELLS -> SampleFreshNets],
                  offs \in [1..NUM_VAI_CELLS -> SampleOffsets] :
                 LET bundles ==
                       [i \in 1..NUM_VAI_CELLS |->
                          [entity |-> Len(born) + i] @@
                          VaiCellBundle_new(IdAfter(cell_id, i), nets[i],
                                            offs[i], now)]
                 IN  /\ commands' = commands \o bundles
                     /\ born' = born \o [i \in 1..NUM_VAI_CELLS |-> bundles[i].id]
                     /\ offspring' = offspring @@
                            [e \in { bundles[i].entity : i \in 1..NUM_VAI_CELLS } |-> 0]
            /\ cell_id' = IdAfter(cell_id, NUM_VAI_CELLS)
            /\ last' = [NoObservation EXCEPT !.op = "spawn_vai_cells",
                            !.seen = num_cells, !.id_before = cell_id,
                            !.spawned = Len(commands') - Len(commands)]
    /\ ran' = ran \cup {"spawn_vai_cells"}
    /\ pass' = IdlePass
    /\ UNCHANGED <<cells, despawns>>
    /\ UNCHANGED netvars
    /\ UNCHANGED updvars

\* vai_cell_replication_system, when its on_timer(0.5 s) condition lets it
\* run: `let mut num_cells = cell_query.iter().len();` and the iterator.
replication_begin ==
    /\ ~pass.active
    /\ ~upass.active
    /\ "vai_cell_replication_system" \notin ran
    /\ \E m \in MaxScores :
         pass' = [ active |-> TRUE, num_cells |-> Cardinality(cells),
                   todo |-> { c.entity : c \in cells }, max_score |-> m,
                   start_len |-> Cardinality(cells), start_id |-> cell_id,
                   start_cmds |-> Len(commands), start_cells |-> cells ]
    /\ last' = [NoObservation EXCEPT !.op = "replication_begin",
                    !.seen = Cardinality(cells), !.id_before = cell_id]
    /\ UNCHANGED <<cells, cell_id, commands, despawns, ran, born, offspring>>
    /\ UNCHANGED netvars
    /\ UNCHANGED updvars

\* One iteration of `for (c, brain, mut num_cells_spawned) in
\* cell_query.iter_mut()`; the query yields the cells in any order.
replication_step ==
    /\ pass.active
    /\ \E c \in cells, reading \in EnergyReadings, k \in Draws :
         /\ c.entity \in pass.todo
         \* the draw is made only in the Some arm, below the cap
         /\ (AtCap(pass.num_cells) \/ reading = None) => k = 0
         /\ LET drawn == ~AtCap(pass.num_cells) /\ reading # None
                obs == [NoObservation EXCEPT !.op = "replication_step",
                            !.seen = pass.num_cells,
                            !.id_before = cell_id, !.reading = reading,
                            !.draw = IF drawn THEN Some(k) ELSE None,
                            !.counter_before = c.num_cells_spawned]
            IN
            IF Reproduces(pass.num_cells, reading, k, pass.max_score)
            THEN /\ Len(born) < MaxBorn
                 /\ \E child_net \in mutate(VaiNet_clone(c.brain)),
                       offset \in SampleOffsets :
                      commands' = Append(commands,
                          [entity |-> Len(born) + 1] @@
                          VaiCellBundle_new(NextCellId(cell_id), child_net,
                                            offset, now))
                 /\ cell_id' = NextCellId(cell_id)
                 /\ born' = Append(born, NextCellId(cell_id))
                 /\ offspring' = [offspring EXCEPT ![c.entity] = @ + 1] @@
                        ((Len(born) + 1) :> 0)
                 /\ cells' = (cells \ {c}) \cup
                        {[c EXCEPT !.num_cells_spawned = @ + 1,
                                   !.brain = ParentBrainAfter(@)]}
                 /\ pass' = [pass EXCEPT
                                !.num_cells = NumCellsAfterSpawn(@),
                                !.todo = Remaining(@, c.entity)]
                 /\ last' = [obs EXCEPT
                                !.spawned = Len(commands') - Len(commands),
                                !.counter_after = CounterOf(cells', c.entity)]
            ELSE /\ UNCHANGED <<cells, cell_id, commands, born, offspring>>
                 /\ pass' = [pass EXCEPT !.todo = Remaining(@, c.entity)]
                 /\ last' = [obs EXCEPT
                                !.spawned = Len(commands') - Len(commands),
                                !.counter_after = CounterOf(cells', c.entity)]
    /\ UNCHANGED <<despawns, ran>>
    /\ UNCHANGED netvars
    /\ UNCHANGED updvars

\* The iterator of vai_cell_replication_system is exhausted: the system
\* returns.
replication_end ==
    /\ pass.active
    /\ pass.todo = {}
    /\ pass' = [pass EXCEPT !.active = FALSE]
    /\ ran' = ran \cup {"vai_cell_replication_system"}
    /\ last' = [NoObservation EXCEPT !.op = "replication_end",
                    !.seen = pass.start_len, !.id_before = pass.start_id,
                    !.spawned = Len(commands) - pass.start_cmds]
    /\ UNCHANGED <<cells, cell_id, commands, despawns, born, offspring>>
    /\ UNCHANGED netvars
    /\ UNCHANGED updvars

\* A collaborator outside this file removes an agent: it queues the despawn
\* of a live entity.
external_despawn ==
    /\ ~pass.active
    /\ \E c \in cells :
         /\ c.entity \notin despawns
         /\ despawns' = despawns \cup {c.entity}
         /\ last' = [NoObservation EXCEPT !.op = "external_despawn",
                        !.seen = Cardinality(cells)]
    /\ pass' = IdlePass
    /\ UNCHANGED <<cells, cell_id, commands, ran, born, offspring>>
    /\ UNCHANGED netvars
    /\ UNCHANGED updvars

\* The end of a run of the Update schedule: the queued commands are applied
\* to the world, and every system may run again in the next frame.
apply_deferred ==
    /\ ~pass.active
    /\ ~upass.active
    /\ cells' = { c \in cells : c.entity \notin despawns } \cup Range(commands)
    /\ commands' = <<>>
    /\ despawns' = {}
    /\ ran' = {}
    /\ pass' = IdlePass
    /\ last' = [NoObservation EXCEPT !.op = "apply_deferred",
                    !.seen = Cardinality(cells)]
    /\ offspring' = [e \in { c.entity : c \in cells' } |-> offspring[e]]
    /\ UNCHANGED <<cell_id, born>>
    /\ UNCHANGED netvars
    /\ UNCHANGED updvars

Next ==
    \/ spawn_vai_cells
    \/ replication_begin
    \/ replication_step
    \/ replication_end
    \/ external_despawn
    \/ apply_deferred

Spec == Init /\ [][Next]_vars

\* What the Bevy schedule guarantees.  Each timer of VaiCellPlugin::build
\* (vai_cell.rs:44-47) keeps firing, so spawn_vai_cells runs again and again
\* in frames in which no other system is in the middle of its loop; a system
\* that was started runs to its end; every run of the schedule ends with
\* the queued commands being applied.
Fairness ==
    /\ SF_vars(spawn_vai_cells)
    /\ WF_vars(replication_step)
    /\ WF_vars(replication_end)
    /\ WF_vars(apply_deferred)

SpecLive == Init /\ [][Next]_vars /\ Fairness


(***************************************************************************)
(* SpecNet: the methods of VaiNet on one network and a clone of it.        *)
(***************************************************************************)

\* net = VaiNet::new(); the population is not involved.
InitNet ==
    /\ cells = {}
    /\ cell_id = 0
    /\ commands = <<>>
    /\ despawns = {}
    /\ ran = {}
    /\ pass = IdlePass
    /\ born = <<>>
    /\ last = NoObservation
    /\ offspring = <<>>
    /\ net \in VaiNet_new
    /\ copy = None
    /\ lab = NoLab
    /\ UpdateIdle

\* copy = net.clone()
net_clone ==
    /\ copy' = Some(VaiNet_clone(net))
    /\ lab' = [NoLab EXCEPT !.op = "clone", !.before = net, !.after = copy'[1]]
    /\ UNCHANGED <<net>>
    /\ UNCHANGED popvars
    /\ UNCHANGED updvars

\* copy.mutate()
net_mutate ==
    /\ copy # None
    /\ \E after \in mutate(copy[1]) : copy' = Some(after)
    /\ lab' = [NoLab EXCEPT !.op = "mutate", !.before = copy[1],
                    !.after = copy'[1], !.mutated = TRUE]
    /\ UNCHANGED <<net>>
    /\ UNCHANGED popvars
    /\ UNCHANGED updvars

\* net.predict(&x) and, when there is a clone, copy.predict(&x).
net_predict ==
    /\ UNCHANGED <<net, copy>>
    /\ \E x \in InputVectors :
         lab' = [ op |-> "predict", before |-> net, after |-> net', x |-> x,
                  out_net |-> predict(net, x),
                  out_copy |-> IF copy = None THEN <<>> ELSE predict(copy[1], x),
                  mutated |-> lab.mutated /\ copy # None ]
    /\ UNCHANGED popvars
    /\ UNCHANGED updvars

NextNet ==
    \/ net_clone
    \/ net_mutate
    \/ net_predict

SpecNet == InitNet /\ [][NextNet]_vars

(***************************************************************************)
(* SpecUpdate: update_vai_cells_system on a population that bootstrap and  *)
(* reproduction have built, with the clock running.  The trackers          *)
(* (LastUpdated, OneSecondTimer, FitnessScores, ..), UPDATE_INTERVAL,      *)
(* NET_ARCH, calc_fitness and the action decoder are declared elsewhere in *)
(* the crate; they are modelled as the specification describes them.       *)
(***************************************************************************)

\* The minimum time between two updates of one agent, in ticks.
UPDATE_INTERVAL == 2

\* The minimum time between two shots of one agent, in ticks.
FIRE_INTERVAL == 2

\* The layer widths of the network after the input layer: one entry per
\* vector of activations predict returns.
NET_ARCH == <<NUM_HIDDEN_NODES, NUM_OUTPUT_NODES>>

\* What get_nn_inputs returns in the update pass: the extreme readings.
SensedInputs == { x \in InputVectors : \A i \in DOMAIN x : x[i] \in {0 - MaxInput, MaxInput} }

\* What focused_cell_stats.id may hold: the id of the youngest agent of the
\* initial population, or the id the next spawn will hand out.
FocusIds == {IdAfter(0, MaxBorn - 1), IdAfter(0, MaxBorn)}

\* instant.elapsed_within(duration): less than `duration` has passed since
\* `instant`.
elapsed_within(instant, duration) == now - instant < duration

\* A pass that checks the global interval only.
Skips_interval_only(c) == elapsed_within(c.last_updated, UPDATE_INTERVAL)

\* A pass that checks the phase offset only.
Skips_phase_only(c) == elapsed_within(one_second_timer, c.periodic_update_interval)

\* update_vai_cells_system: one of the two `continue` is taken.
Skips(c) ==
    \/ elapsed_within(c.last_updated, UPDATE_INTERVAL)
    \/ elapsed_within(one_second_timer, c.periodic_update_interval)

\* A history that keeps the latest score only.
FitnessScores_push_latest(scores, fitness) == <<fitness>>

\* fitness_scores.push(fitness)
FitnessScores_push(scores, fitness) == Append(scores, fitness)

\* `&output[NET_ARCH.len() - 1]`, counting from one.
ActionSignal(output) == output[Len(NET_ARCH)]

RECURSIVE SumSeq(_, _)
SumSeq(x, k) == IF k = 0 THEN 0 ELSE x[k] + SumSeq(x, k - 1)

\* calc_fitness(input, [output[0], output[1], output[2], output[3]]): a
\* deterministic scalar of the sensory input and the four action channels.
calc_fitness(input, channels) ==
    SumSeq(input, Len(input)) + channels[1] + channels[2] + channels[3] + channels[4]

\* get_nn_cell_action(output): thrust, torque and the wish to fire, each
\* read from its own channel.
get_nn_cell_action(output) ==
    [thrust |-> output[1], torque |-> output[2], fire |-> output[3] > 0]

\* perform_cell_action: the shot is taken when the action asks for it and
\* the last one is at least FIRE_INTERVAL old.
Fires(action, c) ==
    action.fire /\ ~elapsed_within(c.last_bullet_fired, FIRE_INTERVAL)

\* The agent after last_updated.0.set_instant_now(), the push of its
\* fitness and perform_cell_action.
Evaluated(c, input) ==
    LET output  == predict(c.brain, input)
        signal  == ActionSignal(output)
        fitness == calc_fitness(input, <<signal[1], signal[2], signal[3], signal[4]>>)
        action  == get_nn_cell_action(signal)
    IN  [c EXCEPT !.last_updated = now,
                  !.fitness_score = FitnessScores_push(@, fitness),
                  !.external_force = [force |-> action.thrust, torque |-> action.torque],
                  !.last_bullet_fired = IF Fires(action, c) THEN now ELSE @]

\* The instants at which the entity e was evaluated, oldest first.
EvalLog(e) == IF e \in DOMAIN eval_log THEN eval_log[e] ELSE <<>>

\* A run in which MaxBorn - 1 agents have been spawned so far and the last
\* 1..MaxAgents of them are alive, just built by VaiCellBundle::new with any
\* phase offsets; the clock reads 0.
InitUpdate ==
    /\ \E k \in 1..MaxAgents :
         \E nets \in [1..k -> SampleFreshNets], offs \in [1..k -> Offsets] :
            /\ cells = { [entity |-> MaxBorn - i] @@
                         VaiCellBundle_new(IdAfter(0, MaxBorn - i), nets[i], offs[i], 0) :
                         i \in 1..k }
            /\ offspring = [e \in (MaxBorn - k)..(MaxBorn - 1) |-> 0]
    /\ cell_id = IdAfter(0, MaxBorn - 1)
    /\ born = [i \in 1..(MaxBorn - 1) |-> IdAfter(0, i)]
    /\ commands = <<>>
    /\ despawns = {}
    /\ ran = {}
    /\ pass = IdlePass
    /\ last = NoObservation
    /\ net = NoNet
    /\ copy = None
    /\ lab = NoLab
    /\ now = 0
    /\ one_second_timer = 0
    /\ focused_cell_net = <<>>
    /\ bullets = 0
    /\ upass = IdleUpdate
    /\ eval_log = <<>>
    /\ upd = NoUpdate

\* Time passes.  OneSecondTimer is reset by its owner before it runs past
\* one second.
tick ==
    /\ ~upass.active
    /\ ~pass.active
    /\ now < MaxTime
    /\ now - one_second_timer < TicksPerSecond
    /\ now' = now + 1
    /\ upd' = [NoUpdate EXCEPT !.op = "tick"]
    /\ UNCHANGED <<one_second_timer, focused_cell_net, bullets, upass, eval_log>>
    /\ UNCHANGED popvars
    /\ UNCHANGED netvars

\* The owner of OneSecondTimer resets it once a second has passed.
one_second_reset ==
    /\ ~upass.active
    /\ ~pass.active
    /\ now - one_second_timer >= TicksPerSecond
    /\ one_second_timer' = now
    /\ upd' = [NoUpdate EXCEPT !.op = "one_second_reset"]
    /\ UNCHANGED <<now, focused_cell_net, bullets, upass, eval_log>>
    /\ UNCHANGED popvars
    /\ UNCHANGED netvars

\* update_vai_cells_system starts: the iterator over the query, and the
\* focused id the pass will read.
update_begin ==
    /\ ~upass.active
    /\ ~pass.active
    /\ \E f \in FocusIds :
         upass' = [active |-> TRUE, todo |-> { c.entity : c \in cells }, focus |-> f]
    /\ upd' = [NoUpdate EXCEPT !.op = "update_begin"]
    /\ UNCHANGED <<now, one_second_timer, focused_cell_net, bullets, eval_log>>
    /\ UNCHANGED popvars
    /\ UNCHANGED netvars

\* One iteration of the loop of update_vai_cells_system; `input` is what
\* get_nn_inputs(&transform, &food_tree) returns.
update_step ==
    /\ upass.active
    /\ \E c \in cells, input \in SensedInputs :
         /\ c.entity \in upass.todo
         /\ LET obs == [NoUpdate EXCEPT
                          !.entity = c.entity,
                          !.within_interval = elapsed_within(c.last_updated, UPDATE_INTERVAL),
                          !.within_phase = elapsed_within(one_second_timer,
                                                        c.periodic_update_interval),
                          !.before = c, !.focus_before = focused_cell_net,
                          !.bullets_before = bullets]
            IN
            IF Skips(c)
            THEN /\ input = CHOOSE x \in SensedInputs : TRUE
                 /\ upd' = [obs EXCEPT !.op = "update_skip"]
                 /\ UNCHANGED <<cells, focused_cell_net, bullets, eval_log>>
            ELSE LET output == predict(c.brain, input)
                     signal == ActionSignal(output)
                 IN  /\ cells' = (cells \ {c}) \cup {Evaluated(c, input)}
                     /\ focused_cell_net' =
                            IF upass.focus = c.id THEN output ELSE focused_cell_net
                     /\ bullets' =
                            IF Fires(get_nn_cell_action(signal), c)
                            THEN bullets + 1 ELSE bullets
                     /\ eval_log' = (c.entity :> Append(EvalLog(c.entity), now))
                                        @@ eval_log
                     /\ upd' = [obs EXCEPT !.op = "update_eval", !.input = input,
                                           !.output = output, !.signal = signal]
         /\ upass' = [upass EXCEPT !.todo = @ \ {c.entity}]
    /\ UNCHANGED <<now, one_second_timer>>
    /\ UNCHANGED <<cell_id, commands, despawns, ran, pass, born, last, offspring>>
    /\ UNCHANGED netvars

\* The iterator is exhausted: update_vai_cells_system returns.
update_end ==
    /\ upass.active
    /\ upass.todo = {}
    /\ upass' = IdleUpdate
    /\ upd' = [NoUpdate EXCEPT !.op = "update_end"]
    /\ UNCHANGED <<now, one_second_timer, focused_cell_net, bullets, eval_log>>
    /\ UNCHANGED popvars
    /\ UNCHANGED netvars

NextUpdate ==
    \/ tick
    \/ one_second_reset
    \/ update_begin
    \/ update_step
    \/ update_end
    \/ spawn_vai_cells
    \/ replication_begin
    \/ replication_step
    \/ replication_end
    \/ apply_deferred

SpecUpdate == InitUpdate /\ [][NextUpdate]_vars

(***************************************************************************)
(* The claims.                                                             *)
(***************************************************************************)

\* C1: the number of live agents possessing a Network never exceeds
\* NUM_VAI_CELLS, after any sequence of bootstrap checks, reproduction
\* passes and removals.
C1_PopulationCap == Cardinality(cells) <= NUM_VAI_CELLS

\* The cap is reached again by reproduction after a removal.
C1_Witness ==
    /\ Cardinality(cells) = NUM_VAI_CELLS
    /\ last.op = "apply_deferred"
    /\ last.seen < NUM_VAI_CELLS
    /\ \E c \in cells : c.num_cells_spawned > 0

\* C2 (as claimed): mutate changes at least one weight of the network it is
\* called on, and never changes its declared shape.
C2_MutationObservable ==
    lab.op = "mutate" =>
        /\ lab.after # lab.before
        /\ Shape(lab.after) = Shape(lab.before)

\* C3: a bootstrap check that finds at least one live agent spawns nothing
\* and leaves the id counter unchanged.
C3_BootstrapOnlyWhenEmpty ==
    (last.op = "spawn_vai_cells" /\ last.seen > 0) =>
        /\ last.spawned = 0
        /\ cell_id = last.id_before

\* The bootstrap check ran on a partially depleted population.
C3_Witness ==
    /\ last.op = "spawn_vai_cells"
    /\ last.seen > 0
    /\ last.seen < NUM_VAI_CELLS

\* The spawn commands the last step queued.
NewBundles == SubSeq(commands, Len(commands) - last.spawned + 1, Len(commands))

\* C4: a bootstrap check that finds no live agent spawns exactly
\* NUM_VAI_CELLS agents, each with a network VaiNet::new() returns and an
\* offspring counter of 0, with pairwise distinct ids.
C4_BootstrapSpawnsCap ==
    (last.op = "spawn_vai_cells" /\ last.seen = 0) =>
        /\ last.spawned = NUM_VAI_CELLS
        /\ \A i \in DOMAIN NewBundles :
             /\ NewBundles[i].brain \in VaiNet_new
             /\ NewBundles[i].num_cells_spawned = 0
        /\ \A i, j \in DOMAIN NewBundles :
             i # j => NewBundles[i].id # NewBundles[j].id

\* A bootstrap after an extinction (ids have been handed out before).
C4_Witness ==
    /\ last.op = "spawn_vai_cells"
    /\ last.seen = 0
    /\ last.id_before > 0
    /\ last.spawned = NUM_VAI_CELLS

\* C5: a reproduction pass that starts with the population at the cap spawns
\* nothing and leaves the id counter and every offspring counter unchanged,
\* whatever the energies and draws.
C5_AtCapNoReproduction ==
    ((pass.active \/ last.op = "replication_end")
        /\ pass.start_len >= NUM_VAI_CELLS) =>
        /\ Len(commands) = pass.start_cmds
        /\ cell_id = pass.start_id
        /\ cells = pass.start_cells

\* A pass at the cap visited an agent holding the maximum energy.
C5_Witness ==
    /\ last.op = "replication_step"
    /\ pass.start_len >= NUM_VAI_CELLS
    /\ pass.max_score > 0
    /\ last.reading = Some(pass.max_score)

\* C6 (as claimed): every newly spawned agent receives an id strictly greater
\* than every id assigned before it, so no two agents ever share an id.
C6_IdsIncreasing ==
    \A i, j \in DOMAIN born : i < j => born[i] < born[j]

\* C7: an agent whose energy equals stats.max_score, visited while the
\* running count is below the cap, spawns a child on every draw.
C7_MaxEnergyReproduces ==
    (last.op = "replication_step" /\ last.seen < NUM_VAI_CELLS
        /\ last.reading = Some(pass.max_score)) =>
        last.spawned = 1

\* Such an agent reproduced on the largest draw.
C7_Witness ==
    /\ last.op = "replication_step"
    /\ last.seen < NUM_VAI_CELLS
    /\ pass.max_score > 0
    /\ last.reading = Some(pass.max_score)
    /\ last.draw = Some(DrawDenom - 1)
    /\ last.spawned = 1

\* C8: with the same stats.max_score, the same draw and the same count below
\* the cap, an agent that reproduced would also have reproduced with any
\* higher energy, and one that did not would not have with any lower energy.
C8_ReproductionMonotone ==
    (last.op = "replication_step" /\ last.draw # None) =>
        \A e \in Energies :
            /\ (last.spawned = 1 /\ e > last.reading[1]) =>
                  Reproduces(last.seen, Some(e), last.draw[1], pass.max_score)
            /\ (last.spawned = 0 /\ e < last.reading[1]) =>
                  ~Reproduces(last.seen, Some(e), last.draw[1], pass.max_score)

\* An agent did not reproduce on a draw on which a higher energy would have.
C8_Witness ==
    /\ last.op = "replication_step"
    /\ last.draw # None
    /\ last.spawned = 0
    /\ last.reading[1] > 0
    /\ \E e \in Energies :
         /\ e > last.reading[1]
         /\ Reproduces(last.seen, Some(e), last.draw[1], pass.max_score)

\* C9: a clone that has not been mutated predicts, layer by layer, what the
\* network it was cloned from predicts on the same input, and predict leaves
\* the network it is called on as it was.
C9_CloneLaw ==
    (lab.op = "predict") =>
        /\ lab.after = lab.before
        /\ (copy # None /\ ~lab.mutated) => lab.out_copy = lab.out_net

\* A clone and its original predicted a non-zero output on an input that
\* narrowing to f32 changes.
C9_Witness ==
    /\ lab.op = "predict"
    /\ copy # None
    /\ ~lab.mutated
    /\ lab.out_copy = lab.out_net
    /\ \E i \in DOMAIN lab.x : AsF32(lab.x[i]) # lab.x[i]
    /\ \E i \in DOMAIN lab.out_net[2] : lab.out_net[2][i] # 0

\* C10: an agent with no entry in the energy map spawns no child, and its
\* offspring counter and the id counter stay as they were.
C10_MissingEnergyNoop ==
    (last.op = "replication_step" /\ last.reading = None) =>
        /\ last.spawned = 0
        /\ cell_id = last.id_before
        /\ last.counter_after = last.counter_before

\* An untracked agent was visited while the count was below the cap.
C10_Witness ==
    /\ last.op = "replication_step"
    /\ last.reading = None
    /\ last.seen < NUM_VAI_CELLS

\* C15: a reproduction event increments the parent's offspring counter by
\* exactly one and queues exactly one child whose counter is 0; a visit that
\* spawns nothing leaves the counter alone; so every agent's counter equals
\* the number of children spawned from it.
C15_OffspringCounter ==
    /\ \A c \in cells : c.num_cells_spawned = offspring[c.entity]
    /\ \A i \in DOMAIN commands :
         commands[i].num_cells_spawned = offspring[commands[i].entity]
    /\ last.op = "replication_step" =>
         /\ last.spawned \in {0, 1}
         /\ last.counter_after = last.counter_before + last.spawned
         /\ last.spawned = 1 => commands[Len(commands)].num_cells_spawned = 0

\* An agent reproduced in two passes, and its second child is queued.
C15_Witness ==
    /\ last.op = "replication_step"
    /\ last.spawned = 1
    /\ last.counter_after = 2
    /\ \E c \in cells : c.num_cells_spawned = 2 /\ offspring[c.entity] = 2

\* C16: during and after a reproduction pass every agent that was alive at
\* its start holds the network it held at the start, whether or not it
\* reproduced; the child's network is a value of its own, built from a clone.
C16_ParentNetworkKept ==
    (pass.active \/ last.op = "replication_end") =>
        /\ { c.entity : c \in cells } = { c.entity : c \in pass.start_cells }
        /\ \A c \in pass.start_cells :
             \A d \in cells : d.entity = c.entity => d.brain = c.brain

\* A pass ended in which an agent reproduced.
C16_Witness ==
    /\ last.op = "replication_end"
    /\ last.spawned > 0
    /\ \E c \in pass.start_cells :
         \E d \in cells :
            /\ d.entity = c.entity
            /\ d.num_cells_spawned = c.num_cells_spawned + 1
            /\ d.brain = c.brain

\* C19: within one reproduction pass only the agents alive at its start are
\* visited, each produces at most one child, the children queued during the
\* pass are not visited and do not reproduce in it, and a pass that starts
\* with n < NUM_VAI_CELLS agents spawns at most min(n, NUM_VAI_CELLS - n).
C19_OneChildPerPass ==
    (pass.active \/ last.op = "replication_end") =>
        LET spawned == Len(commands) - pass.start_cmds
            started == { c.entity : c \in pass.start_cells }
            parents == { c \in pass.start_cells :
                           \E d \in cells :
                              /\ d.entity = c.entity
                              /\ d.num_cells_spawned # c.num_cells_spawned }
        IN  /\ pass.todo \subseteq started
            /\ \A c \in pass.start_cells :
                 \A d \in cells :
                    d.entity = c.entity =>
                       /\ d.num_cells_spawned - c.num_cells_spawned \in {0, 1}
                       /\ d.entity \in pass.todo =>
                             d.num_cells_spawned = c.num_cells_spawned
            /\ \A i \in (pass.start_cmds + 1)..Len(commands) :
                 /\ commands[i].entity \notin started
                 /\ offspring[commands[i].entity] = 0
            /\ spawned = Cardinality(parents)
            /\ pass.start_len < NUM_VAI_CELLS =>
                 /\ spawned <= pass.start_len
                 /\ spawned <= NUM_VAI_CELLS - pass.start_len

\* A pass that started one below the cap with more than one agent ended
\* with one child: the cap, not the number of agents, limited it.
C19_Witness ==
    /\ last.op = "replication_end"
    /\ pass.start_len = NUM_VAI_CELLS - 1
    /\ pass.start_len > 1
    /\ last.spawned = 1
    /\ pass.max_score > 0

\* C14 (as claimed): the networks of a bootstrap are variants of the zero
\* network at NEW_INTENSITY; every child of a reproduction is a variant of
\* its parent's network at MUTATE_INTENSITY, which is strictly smaller, and
\* not a variant of it at NEW_INTENSITY.
C14_StrengthRegimes ==
    /\ MUTATE_INTENSITY < NEW_INTENSITY
    /\ last.op = "spawn_vai_cells" =>
         \A i \in DOMAIN NewBundles :
            NewBundles[i].brain.layers \in create_variant(VAI_new, NEW_INTENSITY)
    /\ (last.op = "replication_step" /\ last.spawned = 1) =>
         \E parent \in cells :
            /\ parent.num_cells_spawned = last.counter_after
            /\ commands[Len(commands)].brain.layers \in
                  create_variant(parent.brain.layers, MUTATE_INTENSITY)
            /\ commands[Len(commands)].brain.layers \notin
                  create_variant(parent.brain.layers, NEW_INTENSITY)

\* C20: whenever the population is empty (and the run has not reached the
\* MaxBorn agents the model follows), the population eventually holds
\* exactly NUM_VAI_CELLS agents again.
C20_Recovery ==
    (cells = {} /\ Len(born) + NUM_VAI_CELLS <= MaxBorn)
        ~> (Cardinality(cells) = NUM_VAI_CELLS)

\* The commands of a bootstrap that followed an extinction were applied to
\* an empty world.
C20_Witness ==
    /\ last.op = "apply_deferred"
    /\ last.seen = 0
    /\ Len(born) > NUM_VAI_CELLS
    /\ Cardinality(cells) = NUM_VAI_CELLS

\* The agent with entity e.
AgentOf(e) == CHOOSE c \in cells : c.entity = e

\* The last step was an iteration of the update loop.
Visited == upd.op \in {"update_skip", "update_eval"}

\* C11: an agent visited by the update pass while less than UPDATE_INTERVAL
\* has passed since its last update, or while the one-second timer is within
\* its phase offset, keeps its last-updated and last-fired timestamps, its
\* fitness history and its force and torque; the focused activations stay as
\* they were and no projectile is spawned.
C11_GatedNoChange ==
    (Visited /\ (upd.within_interval \/ upd.within_phase)) =>
        /\ upd.op = "update_skip"
        /\ AgentOf(upd.entity).last_updated = upd.before.last_updated
        /\ AgentOf(upd.entity).fitness_score = upd.before.fitness_score
        /\ AgentOf(upd.entity).last_bullet_fired = upd.before.last_bullet_fired
        /\ AgentOf(upd.entity).external_force = upd.before.external_force
        /\ AgentOf(upd.entity).brain = upd.before.brain
        /\ focused_cell_net = upd.focus_before
        /\ bullets = upd.bullets_before

\* The focused agent, already evaluated once and past the global interval,
\* was held back by its phase offset alone.
C11_Witness ==
    /\ upd.op = "update_skip"
    /\ ~upd.within_interval
    /\ upd.within_phase
    /\ upass.focus = upd.before.id
    /\ Len(upd.before.fitness_score) > 0

\* Every step leaves the fitness history of every agent as it was, or is
\* the evaluation of that agent and adds one entry at its end.
FitnessStep ==
    \A c \in cells :
        \A d \in cells' :
            d.entity = c.entity =>
                \/ d.fitness_score = c.fitness_score
                \/ /\ upd'.op = "update_eval"
                   /\ upd'.entity = c.entity
                   /\ Len(d.fitness_score) = Len(c.fitness_score) + 1
                   /\ SubSeq(d.fitness_score, 1, Len(c.fitness_score)) = c.fitness_score

Built == cells \cup Range(commands)

\* Every step leaves the phase offset of every agent, live or queued, as it
\* was.
PhaseStep ==
    \A c \in Built :
        \A d \in Built' :
            d.entity = c.entity =>
                d.periodic_update_interval = c.periodic_update_interval

\* C13: the phase offset of an agent is set when VaiCellBundle::new builds
\* it, to a value between 0 and 1 second, and no step of an update pass, a
\* reproduction pass, a bootstrap check or the application of the queued
\* spawns changes it.
C13_PhaseOffsetFixed ==
    /\ [](\A c \in Built : c.periodic_update_interval \in Offsets)
    /\ [][PhaseStep]_vars

\* An agent whose offset lies strictly inside the range has been evaluated
\* and has reproduced, and its child is alive.
C13_Witness ==
    \E c \in cells :
        /\ c.periodic_update_interval > 0
        /\ c.periodic_update_interval < TicksPerSecond
        /\ Len(c.fitness_score) > 0
        /\ c.num_cells_spawned > 0
        /\ Cardinality(cells) > 1

\* C17: an evaluation sets the agent's last-updated timestamp to the clock,
\* and any two consecutive evaluations of one agent are at least
\* UPDATE_INTERVAL apart, however often the update pass runs and whatever the
\* agent's phase offset.
C17_MinimumSpacing ==
    /\ upd.op = "update_eval" => AgentOf(upd.entity).last_updated = now
    /\ \A c \in cells :
         LET log == EvalLog(c.entity) IN
         /\ Len(log) > 0 => c.last_updated = log[Len(log)]
         /\ \A i \in 1..(Len(log) - 1) : log[i + 1] - log[i] >= UPDATE_INTERVAL

\* An agent with phase offset 0, which the second gate never holds back,
\* was evaluated twice, exactly UPDATE_INTERVAL apart.
C17_Witness ==
    /\ upd.op = "update_eval"
    /\ Len(EvalLog(upd.entity)) = 2
    /\ EvalLog(upd.entity)[2] - EvalLog(upd.entity)[1] = UPDATE_INTERVAL
    /\ upd.before.periodic_update_interval = 0

====
